---- MODULE Spec2Model ----
(***************************************************************************)
(* Model of src/app.py: the Nifty 100 aggregation cycle (fetch_all_data),  *)
(* its symbol source (get_nifty100_symbols), the RSI and pledge helpers    *)
(* and the recommendation scoring (get_recommendation).                    *)
(*                                                                         *)
(* Python values are tagged records [t, n, s]: None, a number or a string. *)
(* Floats are modelled by exact integers; the inputs are chosen so that    *)
(* every quotient the code computes is integral.                           *)
(***************************************************************************)
EXTENDS Integers, Sequences, FiniteSets, TLC

VARIABLES pc, remote, stock_symbols, idx, all_stocks_data, last_in, log,
          result, rec_in, rec_locals, rec_out

vars == <<pc, remote, stock_symbols, idx, all_stocks_data, last_in, log,
          result, rec_in, rec_locals, rec_out>>

(* ---------------- bounds of the model ---------------- *)

\* Number of data rows of the remote CSV that the model explores.
MaxCsvRows == 2

\* The hardcoded fallback list is explored through its first FallbackLen entries.
FallbackLen == 2

(* ---------------- Python values ---------------- *)

PyNone == [t |-> "none", n |-> 0, s |-> ""]
Num(x) == [t |-> "num", n |-> x, s |-> ""]
Str(x) == [t |-> "str", n |-> 0, s |-> x]

\* Python truthiness of a value: None, 0 and "" are falsy.
Truthy(v) == CASE v.t = "none" -> FALSE
               [] v.t = "num" -> v.n # 0
               [] OTHER -> v.s # ""

\* dict.get(key, default)
Get(d, k, default) == IF k \in DOMAIN d THEN d[k] ELSE default

EmptyDict == [k \in {} |-> PyNone]

(* ---------------- get_nifty100_symbols ---------------- *)

FullFallback ==
  << "ADANIENT", "ADANIGREEN", "ADANIPORTS", "ADANIPOWER", "AMBUJACEM",
     "APOLLOHOSP", "ASIANPAINT", "AXISBANK", "BAJAJ-AUTO", "BAJFINANCE",
     "BAJAJFINSV", "BPCL", "BHARTIARTL", "BRITANNIA", "CIPLA", "COALINDIA",
     "DIVISLAB", "DRREDDY", "EICHERMOT", "GRASIM", "HCLTECH", "HDFCBANK",
     "HDFCLIFE", "HEROMOTOCO", "HINDALCO", "HINDUNILVR", "ICICIBANK",
     "ITC", "INDUSINDBK", "INFY", "JSWSTEEL", "KOTAKBANK", "LTIM", "LT",
     "M&M", "MARUTI", "NTPC", "NESTLEIND", "ONGC", "POWERGRID", "RELIANCE",
     "SBILIFE", "SBIN", "SUNPHARMA", "TCS", "TATACONSUM", "TATAMOTORS",
     "TATASTEEL", "TECHM", "TITAN", "ULTRACEMCO", "WIPRO", "ZOMATO",
     "DMART", "BAJAJHLDNG", "ICICIGI", "TRENT" >>

Fallback == SubSeq(FullFallback, 1, FallbackLen)

\* The Symbol column of the remote CSV, in file order (a symbol may repeat).
CsvColumn == << "TCS", "INFY", "TCS", "RELIANCE" >>

\* What pd.read_csv(url) and df['Symbol'] can do: the request fails, the body
\* is no CSV, the CSV has no Symbol column, or it parses to 0..MaxCsvRows rows.
RemoteOutcomes ==
  { [kind |-> k, rows |-> << >>] :
      k \in {"network_error", "malformed", "no_symbol_column"} }
  \cup { [kind |-> "csv", rows |-> SubSeq(CsvColumn, 1, n)] : n \in 0..MaxCsvRows }

get_nifty100_symbols(r) ==
  IF r.kind = "csv" THEN r.rows ELSE Fallback

(* ---------------- calculate_rsi ---------------- *)

\* window=14, the default of calculate_rsi's parameter.
RsiWindow == 14

RECURSIVE SumGain(_, _, _)
\* Sum over positions lo..hi of delta.where(delta > 0, 0); delta[1] is NaN,
\* NaN > 0 is false, so position 1 contributes 0.
SumGain(data, lo, hi) ==
  IF lo > hi THEN 0
  ELSE (IF lo > 1 /\ data[lo] - data[lo - 1] > 0
          THEN data[lo] - data[lo - 1] ELSE 0)
       + SumGain(data, lo + 1, hi)

RECURSIVE SumLoss(_, _, _)
\* Sum over positions lo..hi of -delta.where(delta < 0, 0).
SumLoss(data, lo, hi) ==
  IF lo > hi THEN 0
  ELSE (IF lo > 1 /\ data[lo] - data[lo - 1] < 0
          THEN data[lo - 1] - data[lo] ELSE 0)
       + SumLoss(data, lo + 1, hi)

\* data is the Close column of the history frame. The rolling means at the
\* last row are G/window and L/window, so rs = G/L and
\* 100 - 100/(1 + rs) = 100 - 100*L/(G + L).
calculate_rsi(data, window) ==
  IF Len(data) = 0 \/ Len(data) < window
    THEN PyNone
    ELSE LET n == Len(data)
             G == SumGain(data, n - window + 1, n)
             L == SumLoss(data, n - window + 1, n)
         IN  IF L = 0 THEN Num(100)
             ELSE Num(100 - ((100 * L) \div (G + L)))

(* ---------------- get_pledge_percentage ---------------- *)

\* What the screener.in page can be: the request or raise_for_status fails,
\* the page has no Pledge <li>, the <li> has no number <span>, the span text
\* is no float, or the span holds the number n.
PageOutcomes ==
  { [kind |-> k, n |-> 0] : k \in {"http_error", "no_li", "no_span", "bad_text"} }
  \cup { [kind |-> "value", n |-> 30] }

\* Faulty variant: the except clause is missing, the error propagates.
get_pledge_percentage_Raises(page) ==
  IF page.kind \in {"http_error", "bad_text"}
    THEN [exc |-> TRUE, value |-> 0]
    ELSE [exc |-> FALSE, value |-> IF page.kind = "value" THEN page.n ELSE 0]

get_pledge_percentage(page) ==
  CASE page.kind = "http_error" -> [exc |-> FALSE, value |-> 0]
    [] page.kind = "no_li"      -> [exc |-> FALSE, value |-> 0]
    [] page.kind = "no_span"    -> [exc |-> FALSE, value |-> 0]
    [] page.kind = "bad_text"   -> [exc |-> FALSE, value |-> 0]
    [] OTHER                    -> [exc |-> FALSE, value |-> page.n]

(* ---------------- get_recommendation ---------------- *)

RECURSIVE Join(_)
\* ", ".join(reason)
Join(reason) ==
  IF Len(reason) = 0 THEN ""
  ELSE IF Len(reason) = 1 THEN reason[1]
  ELSE reason[1] \o ", " \o Join(Tail(reason))

\* Ordering a non-number against an int raises TypeError.
Comparable(v) == v.t \in {"none", "num"}

RsiRule(rsi) ==
  IF rsi.t = "none" THEN [score |-> 0, reason |-> << >>]
  ELSE IF rsi.n < 30 THEN [score |-> 3, reason |-> << "Oversold (RSI < 30)" >>]
  ELSE IF rsi.n < 40 THEN [score |-> 1, reason |-> << "Approaching Oversold" >>]
  ELSE [score |-> 0, reason |-> << >>]

PeRule(pe) ==
  IF pe.t = "none" THEN [score |-> 0, reason |-> << >>]
  ELSE IF pe.n > 0 /\ pe.n < 20 THEN [score |-> 2, reason |-> << "Low P/E (< 20)" >>]
  ELSE IF pe.n < 0 THEN [score |-> -1, reason |-> << "Negative P/E" >>]
  ELSE [score |-> 0, reason |-> << >>]

\* Faulty variant: the stricter test comes first, so the -4 branch is taken.
PledgeRule_StrictFirst(pledge) ==
  IF pledge.t = "none" THEN [score |-> 0, reason |-> << >>]
  ELSE IF pledge.n > 50 THEN [score |-> -4, reason |-> << "Very High Pledge (> 50%)" >>]
  ELSE IF pledge.n > 25 THEN [score |-> -2, reason |-> << "High Pledge (> 25%)" >>]
  ELSE [score |-> 0, reason |-> << >>]

PledgeRule(pledge) ==
  IF pledge.t = "none" THEN [score |-> 0, reason |-> << >>]
  ELSE IF pledge.n > 25 THEN [score |-> -2, reason |-> << "High Pledge (> 25%)" >>]
  ELSE IF pledge.n > 50 THEN [score |-> -4, reason |-> << "Very High Pledge (> 50%)" >>]
  ELSE [score |-> 0, reason |-> << >>]

\* score and reason as they stand when line 96 is reached.
Scoring(rsi, pe, pledge) ==
  [score  |-> RsiRule(rsi).score + PeRule(pe).score + PledgeRule(pledge).score,
   reason |-> RsiRule(rsi).reason \o PeRule(pe).reason \o PledgeRule(pledge).reason]

\* Faulty variant: the reason list is joined on both branches.
Verdict_AlwaysJoined(sc) ==
  IF sc.score >= 3
    THEN [exc |-> FALSE, signal |-> "Yes", reason |-> Join(sc.reason)]
    ELSE [exc |-> FALSE, signal |-> "No", reason |-> Join(sc.reason)]

\* Lines 96-99: the returned dict.
Verdict(sc) ==
  IF sc.score >= 3
    THEN [exc |-> FALSE, signal |-> "Yes", reason |-> Join(sc.reason)]
    ELSE [exc |-> FALSE, signal |-> "No", reason |-> "Neutral or Unfavorable"]

get_recommendation(rsi, pe, pledge) ==
  IF ~(Comparable(rsi) /\ Comparable(pe) /\ Comparable(pledge))
    THEN [exc |-> TRUE, signal |-> "", reason |-> ""]
    ELSE Verdict(Scoring(rsi, pe, pledge))

(* ---------------- upstream responses for one symbol ---------------- *)

UnreadHist == [kind |-> "unread", close |-> << >>]
UnreadPage == [kind |-> "unread", n |-> 0]

\* info dicts that pass the currentPrice test of line 121: one with the price
\* alone, the others with a name, a previousClose that is missing, null, 0 or
\* 100, and a trailingPE that is 10 or the string "Infinity"
FullInfo(prev, pe) ==
  ("currentPrice" :> Num(110)) @@ ("longName" :> Str("Tata Consultancy"))
    @@ prev @@ ("trailingPE" :> pe)

UsableInfos ==
  { ("currentPrice" :> Num(110)) }
  \cup { FullInfo(prev, Num(10)) :
           prev \in { EmptyDict,
                      ("previousClose" :> PyNone),
                      ("previousClose" :> Num(0)),
                      ("previousClose" :> Num(100)) } }
  \cup { FullInfo(("previousClose" :> Num(100)), Str("Infinity")) }

\* info dicts that do not: empty, without the key, with a null price
UnusableInfos ==
  { EmptyDict,
    ("longName" :> Str("Tata Consultancy")) @@ ("previousClose" :> Num(100)),
    ("currentPrice" :> PyNone) @@ ("longName" :> Str("Tata Consultancy")) }

\* ticker.info raises, is None, or is a dict
InfoOutcomes ==
  { [kind |-> "raise", d |-> EmptyDict], [kind |-> "none", d |-> EmptyDict] }
  \cup { [kind |-> "dict", d |-> d] : d \in UsableInfos \cup UnusableInfos }

\* Close columns: no row, 5 rows, 14 rising rows, 14 rows with G = 1, L = 3
CloseEmpty  == << >>
CloseShort  == << 100, 101, 102, 101, 100 >>
CloseRising == << 100, 101, 102, 103, 104, 105, 106, 107, 108, 109, 110, 111, 112, 113 >>
CloseMixed  == << 103, 102, 101, 100, 101, 101, 101, 101, 101, 101, 101, 101, 101, 101 >>

\* ticker.history(period="1mo") raises or returns a frame
HistOutcomes ==
  { [kind |-> "raise", close |-> << >>] }
  \cup { [kind |-> "frame", close |-> c] :
           c \in {CloseEmpty, CloseShort, CloseRising, CloseMixed} }

\* Faulty variant: only "not info" is tested.
QuoteAbsent_OnlyEmpty(info) ==
  \/ info.kind = "none"
  \/ DOMAIN info.d = {}

\* not info or 'currentPrice' not in info or info.get('currentPrice') is None
QuoteAbsent(info) ==
  \/ info.kind = "none"
  \/ DOMAIN info.d = {}
  \/ "currentPrice" \notin DOMAIN info.d
  \/ Get(info.d, "currentPrice", PyNone) = PyNone

\* The responses one iteration reads. A response the iteration never asks for
\* is Unread.
Inputs ==
  { inp \in [info : InfoOutcomes,
             hist : HistOutcomes \cup {UnreadHist},
             page : PageOutcomes \cup {UnreadPage}] :
      LET asksHist == inp.info.kind # "raise" /\ ~QuoteAbsent(inp.info)
          asksPage == /\ asksHist
                      /\ inp.hist.kind = "frame"
                      /\ Get(inp.info.d, "previousClose", Num(0)).t = "num"
      IN  /\ (inp.hist = UnreadHist) <=> ~asksHist
          /\ (inp.page = UnreadPage) <=> ~asksPage }

(* ---------------- fetch_all_data: one iteration of the loop ---------------- *)

\* (change / prev_close) * 100 if prev_close else 0
PctChange(change, prev_close) ==
  IF Truthy(prev_close) THEN Num((change.n * 100) \div prev_close.n) ELSE Num(0)

\* Faulty variant: the reason is not stored.
WithRecommendation_NoReason(analysed, recommendation) ==
  analysed @@ ("recommendation" :> Str(recommendation.signal))

\* Lines 146-147
WithRecommendation(analysed, recommendation) ==
  analysed @@ ("recommendation" :> Str(recommendation.signal))
           @@ ("reason" :> Str(recommendation.reason))

\* The try body of lines 117-150 for one symbol: how it ends ("skip" at the
\* continue of line 123, "exc" in the handler of line 151, "ok" after the
\* append and the sleep) and the stock_data dict at that point.
Iteration(symbol, inp) ==
  LET info == inp.info.d
      name == Get(info, "longName", Str(symbol))
      price == Get(info, "currentPrice", Num(0))
      prev_close == Get(info, "previousClose", Num(0))
      core == ("name" :> name) @@ ("symbol" :> Str(symbol)) @@ ("price" :> price)
      change == Num(price.n - prev_close.n)
      priced == core @@ ("change" :> change)
                     @@ ("pctChange" :> PctChange(change, prev_close))
      rsi == calculate_rsi(inp.hist.close, RsiWindow)
      pe == Get(info, "trailingPE", PyNone)
      pledge == get_pledge_percentage(inp.page)
      analysed == priced @@ ("rsi" :> rsi) @@ ("pe" :> pe)
                         @@ ("pledge" :> Num(pledge.value))
      recommendation == get_recommendation(rsi, pe, Num(pledge.value))
  IN  IF inp.info.kind = "raise"
        THEN [status |-> "exc", stock_data |-> EmptyDict]
      ELSE IF QuoteAbsent(inp.info)
        THEN [status |-> "skip", stock_data |-> EmptyDict]
      ELSE IF inp.hist.kind = "raise"
        THEN [status |-> "exc", stock_data |-> EmptyDict]
      ELSE IF price.t # "num" \/ prev_close.t # "num"
        THEN [status |-> "exc", stock_data |-> core]
      ELSE IF pledge.exc
        THEN [status |-> "exc", stock_data |-> priced]
      ELSE IF recommendation.exc
        THEN [status |-> "exc", stock_data |-> analysed]
      ELSE [status |-> "ok",
            stock_data |-> WithRecommendation(analysed, recommendation)]

\* time.sleep(0.3) is reached only at the end of the try body.
Sleeps(status) == status = "ok"

\* Faulty variant: the handler appends whatever stock_data holds.
Collected_PartialKept(data, outcome) ==
  IF outcome.status = "skip" THEN data ELSE Append(data, outcome.stock_data)

\* Faulty variant: a new record goes to the front of the list.
Collected_Prepend(data, outcome) ==
  IF outcome.status = "ok" THEN << outcome.stock_data >> \o data ELSE data

\* all_stocks_data after the iteration
Collected(data, outcome) ==
  IF outcome.status = "ok" THEN Append(data, outcome.stock_data) ELSE data

(* ---------------- state machine ---------------- *)

\* time.strftime('%I:%M:%S %p, %b %d, %Y') at two wall-clock times
Timestamps == { "09:15:00 AM, Nov 02, 2026", "03:30:00 PM, Nov 02, 2026" }

NoResult == [data |-> << >>, last_updated |-> ""]
NoInput == [info |-> [kind |-> "unread", d |-> EmptyDict],
            hist |-> UnreadHist, page |-> UnreadPage]
NoRemote == [kind |-> "unread", rows |-> << >>]
NoCall == [rsi |-> PyNone, pe |-> PyNone, pledge |-> PyNone]
NoLocals == [score |-> 0, reason |-> << >>]
NoReturn == [exc |-> FALSE, signal |-> "", reason |-> ""]

Init ==
  /\ pc = "start"
  /\ remote = NoRemote
  /\ stock_symbols = << >>
  /\ idx = 1
  /\ all_stocks_data = << >>
  /\ last_in = NoInput
  /\ log = << >>
  /\ result = NoResult
  /\ rec_in = NoCall
  /\ rec_locals = NoLocals
  /\ rec_out = NoReturn

\* Line 108: the call of get_nifty100_symbols; remote is what its request
\* met, known while the call's result is being taken over.
Resolve ==
  /\ pc = "start"
  /\ \E r \in RemoteOutcomes :
       /\ remote' = r
       /\ stock_symbols' = get_nifty100_symbols(r)
  /\ pc' = "resolved"
  /\ UNCHANGED <<idx, all_stocks_data, last_in, log, result, rec_in,
                 rec_locals, rec_out>>

\* Lines 110-114: the output list starts empty, the loop starts at the first
\* symbol.
StartLoop ==
  /\ pc = "resolved"
  /\ remote' = NoRemote
  /\ all_stocks_data' = << >>
  /\ idx' = 1
  /\ pc' = "loop"
  /\ UNCHANGED <<stock_symbols, last_in, log, result, rec_in, rec_locals,
                 rec_out>>

\* Lines 114-153: the loop body for the symbol at position idx, up to the
\* continue or the end of the sleep. last_in keeps the responses it read.
LoopBody ==
  /\ pc = "loop"
  /\ idx <= Len(stock_symbols)
  /\ \E inp \in Inputs :
       LET outcome == Iteration(stock_symbols[idx], inp)
       IN  /\ last_in' = inp
           /\ all_stocks_data' = Collected(all_stocks_data, outcome)
           /\ log' = log \o << [e |-> "fetch", i |-> idx] >>
                         \o (IF Sleeps(outcome.status)
                               THEN << [e |-> "sleep", i |-> idx] >> ELSE << >>)
  /\ pc' = "iterated"
  /\ UNCHANGED <<remote, stock_symbols, idx, result, rec_in, rec_locals, rec_out>>

\* Line 114: the for statement moves to the next symbol; the locals of the
\* iteration that ended are rebound.
NextSymbol ==
  /\ pc = "iterated"
  /\ idx' = idx + 1
  /\ last_in' = NoInput
  /\ pc' = "loop"
  /\ UNCHANGED <<remote, stock_symbols, all_stocks_data, log, result,
                 rec_in, rec_locals, rec_out>>

\* Lines 155-159: the loop is over, the result is returned.
Return ==
  /\ pc = "loop"
  /\ idx > Len(stock_symbols)
  /\ \E ts \in Timestamps :
       result' = [data |-> all_stocks_data, last_updated |-> ts]
  /\ pc' = "done"
  /\ UNCHANGED <<remote, stock_symbols, idx, all_stocks_data, last_in, log,
                 rec_in, rec_locals, rec_out>>

Next == Resolve \/ StartLoop \/ LoopBody \/ NextSymbol \/ Return

Spec == Init /\ [][Next]_vars

\* The interpreter runs the single thread of fetch_all_data to its end.
FairSpec == Spec /\ WF_vars(Next)

(* ---------------- get_recommendation called on its own ---------------- *)

RsiValues    == { PyNone, Num(25), Num(29), Num(30), Num(39), Num(40), Num(50) }
PeValues     == { PyNone, Num(-5), Num(0), Num(15), Num(19), Num(20), Num(25) }
PledgeValues == { PyNone, Num(10), Num(25), Num(26), Num(50), Num(51), Num(60) }

InitRec ==
  /\ pc = "call"
  /\ rec_in \in [rsi : RsiValues, pe : PeValues, pledge : PledgeValues]
  /\ rec_locals = NoLocals
  /\ rec_out = NoReturn
  /\ remote = NoRemote
  /\ stock_symbols = << >>
  /\ idx = 1
  /\ all_stocks_data = << >>
  /\ last_in = NoInput
  /\ log = << >>
  /\ result = NoResult

\* Lines 71-99: one call of get_recommendation.
Recommend ==
  /\ pc = "call"
  /\ rec_locals' = Scoring(rec_in.rsi, rec_in.pe, rec_in.pledge)
  /\ rec_out' = get_recommendation(rec_in.rsi, rec_in.pe, rec_in.pledge)
  /\ pc' = "returned"
  /\ UNCHANGED <<rec_in, remote, stock_symbols, idx, all_stocks_data, last_in,
                 log, result>>

NextRec == Recommend

SpecRec == InitRec /\ [][NextRec]_vars

(* ================= properties ================= *)

RecordFields ==
  { "name", "symbol", "price", "change", "pctChange", "rsi", "pe", "pledge",
    "recommendation", "reason" }

DocumentedFields == RecordFields \cup { "marketCap", "high", "low" }

\* A step of the loop body: last_in' holds the responses the iteration read.
BodyStep == pc = "loop" /\ pc' = "iterated"

\* The quote snapshot is empty or has a missing or null current price.
SnapshotUnusable(info) ==
  \/ info.kind = "none"
  \/ /\ info.kind = "dict"
     /\ \/ "currentPrice" \notin DOMAIN info.d
        \/ info.d["currentPrice"].t = "none"

HasUsablePrice(inp) ==
  /\ inp.info.kind = "dict"
  /\ "currentPrice" \in DOMAIN inp.info.d
  /\ inp.info.d["currentPrice"].t = "num"

NullPrevClose(inp) ==
  /\ "previousClose" \in DOMAIN inp.info.d
  /\ inp.info.d["previousClose"].t = "none"

NonNumericPE(inp) ==
  /\ "trailingPE" \in DOMAIN inp.info.d
  /\ inp.info.d["trailingPE"].t = "str"

\* An exception is raised somewhere in the iteration's try body.
InputRaises(inp) ==
  \/ inp.info.kind = "raise"
  \/ /\ HasUsablePrice(inp)
     /\ \/ inp.hist.kind = "raise"
        \/ NullPrevClose(inp)
        \/ NonNumericPE(inp)

\* The iteration appended exactly one record, for the symbol at idx.
AppendedOne ==
  /\ Len(all_stocks_data') = Len(all_stocks_data) + 1
  /\ SubSeq(all_stocks_data', 1, Len(all_stocks_data)) = all_stocks_data
  /\ all_stocks_data'[Len(all_stocks_data')]["symbol"] = Str(stock_symbols[idx])

NewRecord == all_stocks_data'[Len(all_stocks_data')]

Fetched(i) == \E j \in 1..Len(log) : log[j] = [e |-> "fetch", i |-> i]

\* C1: the cycle never fails as a whole: a symbol that raises or is skipped
\* adds nothing to the output, every record is complete, the loop reaches
\* every symbol, and the cycle ends with a data sequence and a timestamp.
C1_CycleNeverFails ==
  /\ [][ (BodyStep /\ (InputRaises(last_in') \/ SnapshotUnusable(last_in'.info)))
           => all_stocks_data' = all_stocks_data ]_vars
  /\ [](\A j \in 1..Len(all_stocks_data) : DOMAIN all_stocks_data[j] = RecordFields)
  /\ [](pc = "done" =>
          /\ result.data = all_stocks_data
          /\ result.last_updated \in Timestamps
          /\ \A i \in 1..Len(stock_symbols) : Fetched(i))
  /\ <>(pc = "done")

\* A symbol raised late in its try body, nothing was collected, and a symbol
\* is still to come.
C1_Witness ==
  /\ pc = "iterated"
  /\ idx = 1
  /\ Len(stock_symbols) >= 2
  /\ HasUsablePrice(last_in)
  /\ NonNumericPE(last_in)
  /\ all_stocks_data = << >>

IsIncreasing(f, n) == \A a, b \in 1..n : a < b => f[a] < f[b]

\* The symbols of data, in order, are picked from list at increasing positions.
IsSubsequenceOf(data, list) ==
  \E f \in [1..Len(data) -> 1..Len(list)] :
    /\ IsIncreasing(f, Len(data))
    /\ \A j \in 1..Len(data) : data[j]["symbol"] = Str(list[f[j]])

\* C2: the record symbols form an order-preserving subsequence of the
\* resolved symbol list, at most one record per list position.
C2_OrderPreserved ==
  /\ Len(all_stocks_data) <= Len(stock_symbols)
  /\ (Len(stock_symbols) > 0 => IsSubsequenceOf(all_stocks_data, stock_symbols))
  /\ (Len(stock_symbols) = 0 => all_stocks_data = << >>)
  /\ (pc = "done" => result.data = all_stocks_data)

C2_Witness ==
  /\ pc = "done"
  /\ Len(result.data) = 2
  /\ result.data[1]["symbol"] = Str(stock_symbols[1])
  /\ result.data[2]["symbol"] = Str(stock_symbols[2])
  /\ stock_symbols[1] # stock_symbols[2]

\* C3: a symbol whose snapshot is empty or lacks a non-null current price
\* adds no record, and no emitted record has a null price.
C3_AbsentQuoteOmitted ==
  /\ [][ (BodyStep /\ SnapshotUnusable(last_in'.info))
           => all_stocks_data' = all_stocks_data ]_vars
  /\ [](\A j \in 1..Len(all_stocks_data) : all_stocks_data[j]["price"].t = "num")
  /\ [](pc = "done" => result.data = all_stocks_data /\ result.last_updated # "")

\* The second of two symbols had a null current price and nothing was emitted.
C3_Witness ==
  /\ pc = "iterated"
  /\ idx = 2
  /\ last_in.info.kind = "dict"
  /\ "currentPrice" \in DOMAIN last_in.info.d
  /\ last_in.info.d["currentPrice"] = PyNone
  /\ all_stocks_data = << >>

PledgeFetchFailed(inp) == inp.page.kind \in {"http_error", "no_li", "no_span", "bad_text"}

RsiNotComputable(inp) == inp.hist.kind = "frame" /\ Len(inp.hist.close) < RsiWindow

\* Nothing but the pledge fetch or the RSI calculation goes wrong.
RestSucceeds(inp) ==
  /\ HasUsablePrice(inp)
  /\ inp.hist.kind = "frame"
  /\ ~NullPrevClose(inp)
  /\ ~NonNumericPE(inp)

C5_SymbolsNeverEmpty ==
  pc = "resolved" =>
    /\ Len(stock_symbols) > 0
    /\ (remote.kind # "csv" => stock_symbols = Fallback)

\* The score the rules assign: 3 or 1 for a low rsi, 2 or -1 for the pe,
\* -2 for every pledge above 25.
RuleScore(in) ==
  (IF in.rsi.t = "num" /\ in.rsi.n < 30 THEN 3
   ELSE IF in.rsi.t = "num" /\ in.rsi.n < 40 THEN 1 ELSE 0)
  + (IF in.pe.t = "num" /\ 0 < in.pe.n /\ in.pe.n < 20 THEN 2
     ELSE IF in.pe.t = "num" /\ in.pe.n < 0 THEN -1 ELSE 0)
  + (IF in.pledge.t = "num" /\ in.pledge.n > 25 THEN -2 ELSE 0)

Listed(label, reason) == \E j \in 1..Len(reason) : reason[j] = label

\* C6: the signal is "Yes" exactly when the rule score is at least 3, a
\* pledge above 50 costs 2 like any pledge above 25, and the "Very High
\* Pledge" branch is never taken.
C6_SignalFromScore ==
  pc = "returned" =>
    /\ ~rec_out.exc
    /\ rec_out.signal = (IF RuleScore(rec_in) >= 3 THEN "Yes" ELSE "No")
    /\ rec_locals.score = RuleScore(rec_in)
    /\ ~Listed("Very High Pledge (> 50%)", rec_locals.reason)

\* rsi = 25, pe = 15, pledge = 51: two rules fire, the pledge costs 2, "Yes".
C6_Witness ==
  /\ pc = "returned"
  /\ rec_in = [rsi |-> Num(25), pe |-> Num(15), pledge |-> Num(51)]
  /\ rec_locals.score = 3
  /\ rec_out.signal = "Yes"

\* C7 as stated: with signal "No" the reason is the joined list of the rules
\* that fired, and the literal only when none fired.
C7_ReasonListsFiredRules ==
  (pc = "returned" /\ rec_out.signal = "No") =>
    rec_out.reason = (IF rec_locals.reason = << >>
                        THEN "Neutral or Unfavorable"
                        ELSE Join(rec_locals.reason))

\* C7 amended: with signal "No" the reason is always the literal "Neutral or
\* Unfavorable", whatever rules fired; the joined list of the fired rules is
\* returned with signal "Yes" only.
C7_ReasonLiteralOnNo ==
  pc = "returned" =>
    /\ (rec_out.signal = "No" => rec_out.reason = "Neutral or Unfavorable")
    /\ (rec_out.signal = "Yes" => rec_out.reason = Join(rec_locals.reason))
    /\ rec_out.signal \in {"Yes", "No"}

\* rsi = 50, pe = 25, pledge = 60: the pledge rule fired, the reason is the literal.
C7_Witness ==
  /\ pc = "returned"
  /\ rec_in = [rsi |-> Num(50), pe |-> Num(25), pledge |-> Num(60)]
  /\ rec_locals.reason = << "High Pledge (> 25%)" >>
  /\ rec_out = [exc |-> FALSE, signal |-> "No", reason |-> "Neutral or Unfavorable"]

\* previousClose as the claim reads it: missing and null count as falsy.
PrevCloseOf(inp) == Get(inp.info.d, "previousClose", PyNone)

\* C8: with a usable price the record has change = price - prevClose and
\* pctChange = change / prevClose * 100, pctChange = 0 for a falsy prevClose
\* (zero, missing or null), and a falsy prevClose never drops the symbol.
C8_ChangeAndPctChange ==
  [][ (BodyStep /\ HasUsablePrice(last_in') /\ last_in'.hist.kind = "frame"
         /\ ~NonNumericPE(last_in'))
        => LET prev == PrevCloseOf(last_in')
               price == last_in'.info.d["currentPrice"].n
           IN  /\ AppendedOne
               /\ NewRecord["price"] = Num(price)
               /\ (Truthy(prev) =>
                     /\ NewRecord["change"] = Num(price - prev.n)
                     /\ NewRecord["pctChange"].n * prev.n = (price - prev.n) * 100)
               /\ (~Truthy(prev) => NewRecord["pctChange"] = Num(0)) ]_vars

C10_DelayBetweenSymbols ==
  \A j \in 1..Len(log) :
    (j < Len(log) /\ log[j].e = "fetch") => log[j + 1].e = "sleep"

====
